---------------------------- MODULE Spec2Model ----------------------------
(***************************************************************************)
(* A model of the uwaterloo-tools scripts:                                 *)
(*   - examSaver/src/index.ts: the paginated exam scraper (parseExams,     *)
(*     fetchPage, processPages and the top-level catch);                   *)
(*   - github-org-commits/viewer: the commit loader's sort and the         *)
(*     CommitsClient filter/group computation.                             *)
(* Text is modelled as a sequence of one-character strings, so that        *)
(* trimming, concatenation, number formatting and substring search are     *)
(* computed character by character.                                        *)
(***************************************************************************)
EXTENDS Integers, Sequences, FiniteSets, TLC

VARIABLES
    \* parseExams called on its own (SpecParse)
    pPc, pHtml, pCategory, pExams,
    \* fetchPage called on its own (SpecFetch)
    fPc, fPage, fCategory, fUrl, fResult,
    \* processPages and the process around it (Spec)
    pc, site, category, page, allExams, inFlight, timers,
    fetchLog, parsedLog, delays, file, writes, consoleLog, exitCode,
    \* the commits viewer (SpecViewer)
    vPc, rows, commits, q, repo,
    \* loadCommitsFromRepoJsonl called on its own (SpecLoad)
    lPc, lines, loaded

parseVars == <<pPc, pHtml, pCategory, pExams>>
fetchVars == <<fPc, fPage, fCategory, fUrl, fResult>>
pipeVars  == <<pc, site, category, page, allExams, inFlight, timers,
               fetchLog, parsedLog, delays, file, writes, consoleLog, exitCode>>
viewVars  == <<vPc, rows, commits, q, repo>>
loadVars  == <<lPc, lines, loaded>>
vars      == <<parseVars, fetchVars, pipeVars, viewVars, loadVars>>

---------------------------------------------------------------------------
(* Bounds of the model *)

\* listing blocks per page in SpecParse
MaxBlocks == 2
\* largest page index fetchPage is called with in SpecFetch
MaxPage == 40
\* the archive sites the scraper is run against are numbered 0..MaxSite
MaxSite == 3
\* lines of out.jsonl that yield a commit row
MaxCommits == 3
\* lines of out.jsonl in SpecLoad
MaxLines == 3

---------------------------------------------------------------------------
(* Text *)

\* JS undefined and null: values distinct from every text (their one element
\* is not a character)
Undefined == <<"undefined">>
Null == <<"null">>

\* the characters String.prototype.trim removes, among those the model uses
IsWhiteSpace(c) == c \in {" ", "\t", "\n"}

RECURSIVE TrimStart(_)
TrimStart(s) ==
    IF s = <<>> THEN <<>>
    ELSE IF IsWhiteSpace(Head(s)) THEN TrimStart(Tail(s))
    ELSE s

RECURSIVE TrimEnd(_)
TrimEnd(s) ==
    IF s = <<>> THEN <<>>
    ELSE IF IsWhiteSpace(s[Len(s)]) THEN TrimEnd(SubSeq(s, 1, Len(s) - 1))
    ELSE s

Trim(s) == TrimEnd(TrimStart(s))

\* s.includes(t)
Includes(s, t) ==
    \E i \in 0..(Len(s) - Len(t)) : SubSeq(s, i + 1, i + Len(t)) = t

\* flattening a sequence of sequences, in order (by halves, which keeps the
\* evaluation shallow on long sequences)
RECURSIVE Flatten(_)
Flatten(ss) ==
    IF ss = <<>> THEN <<>>
    ELSE IF Len(ss) = 1 THEN ss[1]
    ELSE LET h == Len(ss) \div 2
         IN  Flatten(SubSeq(ss, 1, h)) \o Flatten(SubSeq(ss, h + 1, Len(ss)))

Digit(d) == <<"0", "1", "2", "3", "4", "5", "6", "7", "8", "9">>[d + 1]

\* `${page}` for a non-negative integer: its decimal digits, no padding
RECURSIVE NumberToString(_)
NumberToString(n) ==
    IF n < 10 THEN <<Digit(n)>>
    ELSE NumberToString(n \div 10) \o <<Digit(n % 10)>>

---------------------------------------------------------------------------
(* parseExams: examSaver/src/index.ts *)

\* A page is the sequence of its top-level elements in document order.  An
\* element is [listing, titles, anchors]: listing says whether it matches
\* article.list-article; titles are the texts of its h2.entry-title
\* descendants; anchors are the href attributes (or Undefined) of its
\* "div.entry-content a" descendants.

\* "https://exams.engsoc.uwaterloo.ca/"
BaseUrl ==
    <<"h","t","t","p","s",":","/","/","e","x","a","m","s",".",
      "e","n","g","s","o","c",".","u","w","a","t","e","r","l","o","o",
      ".","c","a","/">>

\* $(element).find("h2.entry-title").text().trim(): the texts of all the
\* matched elements joined, then trimmed
TitleOf(element) == Trim(Flatten(element.titles))

\* $(element).find("div.entry-content a").attr("href"): the attribute of the
\* first matched element, undefined when nothing matched or it has none
LinkOf(element) ==
    IF element.anchors = <<>> THEN Undefined ELSE Head(element.anchors)

\* JS truthiness of a string-or-undefined
Truthy(v) == v # Undefined /\ v # Null /\ v # <<>>

\* the record pushed at line 19-23
ExamRecordDroppingSlash(title, link, cat) ==
    [title |-> title,
     url |-> IF link # <<>> /\ Head(link) = "/" THEN BaseUrl \o Tail(link)
             ELSE BaseUrl \o link,
     category |-> cat]

ExamRecord(title, link, cat) ==
    [title |-> title, url |-> BaseUrl \o link, category |-> cat]

\* the callback of .each, applied to one matched element
EachBlockTitleOnly(exams, element, cat) ==
    IF Truthy(TitleOf(element))
    THEN Append(exams, ExamRecord(TitleOf(element),
                                  IF Truthy(LinkOf(element))
                                  THEN LinkOf(element) ELSE <<>>, cat))
    ELSE exams

EachBlock(exams, element, cat) ==
    IF Truthy(TitleOf(element)) /\ Truthy(LinkOf(element))
    THEN Append(exams, ExamRecord(TitleOf(element), LinkOf(element), cat))
    ELSE exams

\* $("article.list-article"): the matching elements, in document order
ListArticles(html) == SelectSeq(html, LAMBDA e : e.listing)

RECURSIVE EachFrom(_, _, _, _)
EachFrom(blocks, i, exams, cat) ==
    IF i > Len(blocks) THEN exams
    ELSE EachFrom(blocks, i + 1, EachBlock(exams, blocks[i], cat), cat)

parseExams(html, cat) == EachFrom(ListArticles(html), 1, <<>>, cat)


\* parseExams called once on a page drawn from the bounded set of pages
TitleChoices ==
    { <<>>,                               \* no h2.entry-title
      << <<" ", "\n">> >>,                \* a title of white space only
      << <<" ", "F", "2", " ">> >>,       \* a padded title
      << <<"F">>, <<" ", "G", "\t">> >> } \* two title elements

AnchorChoices ==
    { <<>>,                               \* no anchor
      <<Undefined>>,                      \* an anchor without href
      << <<>> >>,                         \* href=""
      << <<"/", "a">> >>,                 \* href="/a"
      <<Undefined, <<"/", "a">> >>,       \* the first anchor has no href
      << <<"b">>, <<"/", "a">> >> }       \* two links

Elements ==
    { [listing |-> TRUE, titles |-> t, anchors |-> a] :
        t \in TitleChoices, a \in AnchorChoices }
    \cup { [listing |-> FALSE, titles |-> << <<"N">> >>,
            anchors |-> << <<"/", "n">> >>] }

Pages == UNION { [1..n -> Elements] : n \in 0..MaxBlocks }

Categories == {"ECE", "Mathematics", "Math"}

IdleParse ==
    /\ pPc = "idle" /\ pHtml = <<>> /\ pCategory = "ECE" /\ pExams = <<>>

InitParse ==
    /\ pPc = "call"
    /\ pHtml \in Pages
    /\ pCategory \in Categories
    /\ pExams = <<>>

ParseCall ==
    /\ pPc = "call"
    /\ pExams' = parseExams(pHtml, pCategory)
    /\ pPc' = "returned"
    /\ UNCHANGED <<pHtml, pCategory>>

---------------------------------------------------------------------------
(* fetchPage: examSaver/src/index.ts *)

TagMathematics == <<"m","a","t","h","e","m","a","t","i","c","s">>
TagMath == <<"m","a","t","h">>
TagElectrical ==
    <<"e","l","e","c","t","r","i","c","a","l","-","a","n","d","-",
      "c","o","m","p","u","t","e","r">>

\* the switch over category
TagFallThrough(cat) == TagElectrical

Tag(cat) ==
    CASE cat = "Mathematics" -> TagMathematics
      [] cat = "Math" -> TagMath
      [] OTHER -> TagElectrical

QueryTag == <<"?","t","a","g","=">>
QueryPaged == <<"&","p","a","g","e","d","=">>

\* the url of lines 45-47
RequestUrlAlwaysPaged(p, cat) ==
    BaseUrl \o QueryTag \o Tag(cat) \o QueryPaged \o NumberToString(p)

RequestUrl(p, cat) ==
    IF p = 0
    THEN BaseUrl \o QueryTag \o Tag(cat)
    ELSE BaseUrl \o QueryTag \o Tag(cat) \o QueryPaged \o NumberToString(p)

\* how a request can fail: a transport error, or a status outside 2xx
\* (axios rejects on both)
FailureKinds == {"network", "status"}

\* fetchPage called once with a page index and a category drawn from
\* bounded sets; "Physics" stands for a category the switch does not name
FetchCategories == Categories \cup {"Physics"}

\* response bodies the server may send
Bodies == { <<>>, <<[listing |-> TRUE, titles |-> << <<"F">> >>,
                     anchors |-> << <<"/", "a">> >>]>> }

NoResult == [kind |-> "none", value |-> <<>>]

IdleFetch ==
    /\ fPc = "idle" /\ fPage = 0 /\ fCategory = "ECE"
    /\ fUrl = <<>> /\ fResult = NoResult

InitFetch ==
    /\ fPc = "call"
    /\ fPage \in 0..MaxPage
    /\ fCategory \in FetchCategories
    /\ fUrl = <<>>
    /\ fResult = NoResult

\* up to the await of axios.get
FetchCall ==
    /\ fPc = "call"
    /\ fUrl' = RequestUrl(fPage, fCategory)
    /\ fPc' = "awaiting"
    /\ UNCHANGED <<fPage, fCategory, fResult>>

\* the response arrives: return response.data
FetchReturn ==
    /\ fPc = "awaiting"
    /\ \E body \in Bodies : fResult' = [kind |-> "data", value |-> body]
    /\ fPc' = "returned"
    /\ UNCHANGED <<fPage, fCategory, fUrl>>

\* the request fails: the rejection propagates to the caller
FetchThrow ==
    /\ fPc = "awaiting"
    /\ \E kind \in FailureKinds : fResult' = [kind |-> "error", value |-> <<kind>>]
    /\ fPc' = "threw"
    /\ UNCHANGED <<fPage, fCategory, fUrl>>

---------------------------------------------------------------------------
(* processPages and the process around it: examSaver/src/index.ts *)

\* the inclusive upper bounds of the three loops
EceLastPage == 80
MathematicsLastPage == 20
MathLastPage == 5
\* the argument of delay(...)
DelayMs == 1000

\* the three loops, in program order
CategoryOrder == <<"ECE", "Mathematics", "Math">>

LastPageExclusive(cat) ==
    CASE cat = "ECE" -> EceLastPage - 1
      [] cat = "Mathematics" -> MathematicsLastPage - 1
      [] OTHER -> MathLastPage - 1

\* page <= LastPage(cat) is the loop condition
LastPage(cat) ==
    CASE cat = "ECE" -> EceLastPage
      [] cat = "Mathematics" -> MathematicsLastPage
      [] OTHER -> MathLastPage

CategoryIndex(cat) == CHOOSE i \in 1..Len(CategoryOrder) : CategoryOrder[i] = cat

\* The archive.  Site 0 serves listings in which no block has both a title
\* and a link; the other sites serve the sample pages in rotation, shifted
\* per tag, so that pages repeat and hold incomplete blocks.
Block(title, href) ==
    [listing |-> TRUE, titles |-> <<title>>, anchors |-> <<href>>]

PageNone ==
    << Block(<<" ">>, <<"/", "a">>),
       [listing |-> TRUE, titles |-> << <<"F">> >>, anchors |-> <<>>] >>

SamplePages ==
    << << Block(<<"F", "2">>, <<"/", "f">>), Block(<<>>, <<"/", "e">>) >>,
       <<>>,
       << [listing |-> FALSE, titles |-> << <<"N">> >>,
           anchors |-> << <<"/", "n">> >>],
          Block(<<" ", "M", "1">>, <<"m">>),
          Block(<<"F", "2">>, <<"/", "f">>) >> >>

TagIndex(tag) ==
    CASE tag = TagElectrical -> 1
      [] tag = TagMathematics -> 2
      [] OTHER -> 3

ServerPage(s, tag, p) ==
    IF s = 0 THEN PageNone
    ELSE SamplePages[((p + s * TagIndex(tag)) % Len(SamplePages)) + 1]

\* allExams.push(...exams)
PushAllDedup(all, exams) ==
    all \o SelectSeq(exams, LAMBDA e : \A i \in 1..Len(all) : all[i] # e)

PushAll(all, exams) == all \o exams

\* xlsx.utils.json_to_sheet(js): the header is the keys met while walking the
\* records, in order of first appearance; row 1 holds the header cells and
\* row i + 1 the cells of record i.  A sheet is the sequence of its rows.
Keys(record) == <<"title", "url", "category">>

AddKeys(hdr, ks) ==
    hdr \o SelectSeq(ks, LAMBDA k : \A i \in 1..Len(hdr) : hdr[i] # k)

\* (the walk is computed by halves; the result is that of walking in order)
RECURSIVE HeaderOf(_)
HeaderOf(js) ==
    IF js = <<>> THEN <<>>
    ELSE IF Len(js) = 1 THEN AddKeys(<<>>, Keys(js[1]))
    ELSE LET h == Len(js) \div 2
         IN  AddKeys(HeaderOf(SubSeq(js, 1, h)), HeaderOf(SubSeq(js, h + 1, Len(js))))

json_to_sheet(js) ==
    LET hdr == HeaderOf(js)
    IN  IF hdr = <<>> THEN <<>>
        ELSE << [c \in 1..Len(hdr) |-> [t |-> "s", v |-> hdr[c]]] >>
             \o [i \in 1..Len(js) |->
                    [c \in 1..Len(hdr) |-> [t |-> "s", v |-> js[i][hdr[c]]]]]

book_new == [SheetNames |-> <<>>, Sheets |-> <<>>]

book_append_sheet(wb, ws, name) ==
    [SheetNames |-> Append(wb.SheetNames, name),
     Sheets |-> Append(wb.Sheets, ws)]

\* exams.xlsx: absent, or holding the workbook last written
NoFile == <<>>

writeFile(wb) == <<wb>>

\* processPages().catch(console.error): the rejection has a handler
HasCatchHandler == TRUE

\* the exit code of a process whose event loop has drained: 1 after an
\* unhandled rejection, else 0 (process.exitCode is never set)
ExitCodeOf(state) ==
    IF state = "rejected" /\ ~HasCatchHandler THEN 1 ELSE 0

IdlePipe ==
    /\ pc = "idle" /\ site = 0 /\ category = "ECE" /\ page = 0
    /\ allExams = <<>> /\ inFlight = <<>> /\ timers = <<>>
    /\ fetchLog = <<>> /\ parsedLog = <<>> /\ delays = <<>>
    /\ file = NoFile /\ writes = 0 /\ consoleLog = <<>> /\ exitCode = <<>>

InitPipe ==
    /\ pc = "start"
    /\ site \in 0..MaxSite
    /\ category = "ECE" /\ page = 0
    /\ allExams = <<>> /\ inFlight = <<>> /\ timers = <<>>
    /\ fetchLog = <<>> /\ parsedLog = <<>> /\ delays = <<>>
    /\ file = NoFile /\ writes = 0 /\ consoleLog = <<>> /\ exitCode = <<>>

\* console.log(`Fetching ...`) and fetchPage(p, cat) up to its await
IssueFetch(cat, p) ==
    /\ consoleLog' = Append(consoleLog, <<"log", "Fetching", cat, p>>)
    /\ inFlight' = Append(inFlight, [url |-> RequestUrl(p, cat), tag |-> Tag(cat), page |-> p])
    /\ fetchLog' = Append(fetchLog, [category |-> cat, page |-> p, outcome |-> "pending"])
    /\ category' = cat
    /\ page' = p
    /\ pc' = "awaitFetch"

\* processPages() is called: allExams = [], the first loop starts
StartAllCategories ==
    /\ pc = "start"
    /\ consoleLog' = consoleLog
    /\ inFlight' = [i \in 1..Len(CategoryOrder) |->
                      [url |-> RequestUrl(0, CategoryOrder[i]),
                       tag |-> Tag(CategoryOrder[i]), page |-> 0]]
    /\ fetchLog' = [i \in 1..Len(CategoryOrder) |->
                      [category |-> CategoryOrder[i], page |-> 0, outcome |-> "pending"]]
    /\ pc' = "awaitFetch"
    /\ UNCHANGED <<site, category, page, allExams, timers, parsedLog, delays,
                   file, writes, exitCode>>

Start ==
    /\ pc = "start"
    /\ IssueFetch(CategoryOrder[1], 0)
    /\ UNCHANGED <<site, allExams, timers, parsedLog, delays, file, writes, exitCode>>

SetOutcome(log, outcome) == [log EXCEPT ![Len(log)].outcome = outcome]

\* the response arrives with a 2xx status: parse, push, start the delay
FetchResolve ==
    /\ pc = "awaitFetch"
    /\ inFlight # <<>>
    /\ LET req == Head(inFlight)
           html == ServerPage(site, req.tag, req.page)
           exams == parseExams(html, category)
       IN  /\ allExams' = PushAll(allExams, exams)
           /\ parsedLog' = Append(parsedLog, exams)
    /\ inFlight' = Tail(inFlight)
    /\ fetchLog' = SetOutcome(fetchLog, "ok")
    /\ timers' = Append(timers, DelayMs)
    /\ pc' = "awaitDelay"
    /\ UNCHANGED <<site, category, page, delays, file, writes, consoleLog, exitCode>>

\* the request fails: await throws, processPages rejects, and the handler
\* given to .catch logs the error
FetchRejectContinue(kind) ==
    /\ pc = "awaitFetch"
    /\ inFlight # <<>>
    /\ inFlight' = Tail(inFlight)
    /\ fetchLog' = SetOutcome(fetchLog, kind)
    /\ parsedLog' = Append(parsedLog, <<>>)
    /\ consoleLog' = Append(consoleLog, <<"error", kind>>)
    /\ timers' = Append(timers, DelayMs)
    /\ pc' = "awaitDelay"
    /\ UNCHANGED <<site, category, page, allExams, delays, file, writes, exitCode>>

FetchReject(kind) ==
    /\ pc = "awaitFetch"
    /\ inFlight # <<>>
    /\ inFlight' = Tail(inFlight)
    /\ fetchLog' = SetOutcome(fetchLog, kind)
    /\ consoleLog' = Append(consoleLog, <<"error", kind>>)
    /\ pc' = "rejected"
    /\ UNCHANGED <<site, category, page, allExams, timers, parsedLog, delays,
                   file, writes, exitCode>>

\* the timer of delay(1000) fires
TimerFires ==
    /\ timers # <<>>
    /\ timers' = Tail(timers)
    /\ delays' = Append(delays, Head(timers))

\* page++, and the loop condition holds: the next page of the category
NextPage ==
    /\ pc = "awaitDelay"
    /\ TimerFires
    /\ page + 1 <= LastPage(category)
    /\ IssueFetch(category, page + 1)
    /\ UNCHANGED <<site, allExams, parsedLog, file, writes, exitCode>>

\* page++, the loop ends, and the next loop starts at page 0
NextCategory ==
    /\ pc = "awaitDelay"
    /\ TimerFires
    /\ page + 1 > LastPage(category)
    /\ CategoryIndex(category) < Len(CategoryOrder)
    /\ IssueFetch(CategoryOrder[CategoryIndex(category) + 1], 0)
    /\ UNCHANGED <<site, allExams, parsedLog, file, writes, exitCode>>

\* page++, the last loop ends: build the workbook and write exams.xlsx
Export ==
    /\ pc = "awaitDelay"
    /\ TimerFires
    /\ page + 1 > LastPage(category)
    /\ CategoryIndex(category) = Len(CategoryOrder)
    /\ file' = writeFile(book_append_sheet(book_new, json_to_sheet(allExams), "Exams"))
    /\ writes' = writes + 1
    /\ consoleLog' = Append(consoleLog, <<"log", "Exams saved to exams.xlsx">>)
    /\ pc' = "fulfilled"
    /\ UNCHANGED <<site, category, page, allExams, inFlight, fetchLog, parsedLog, exitCode>>

\* nothing is pending any more: the process ends
ProcessExit ==
    /\ pc \in {"fulfilled", "rejected"}
    /\ inFlight = <<>> /\ timers = <<>>
    /\ exitCode = <<>>
    /\ exitCode' = <<ExitCodeOf(pc)>>
    /\ UNCHANGED <<pc, site, category, page, allExams, inFlight, timers, fetchLog,
                   parsedLog, delays, file, writes, consoleLog>>

---------------------------------------------------------------------------
(* The commits viewer: viewer/src/lib/commits.ts and CommitsClient *)

LowerCase == <<"a","b","c","d","e","f","g","h","i","j","k","l","m",
               "n","o","p","q","r","s","t","u","v","w","x","y","z">>
UpperCase == <<"A","B","C","D","E","F","G","H","I","J","K","L","M",
               "N","O","P","Q","R","S","T","U","V","W","X","Y","Z">>

IsUpper(c) == \E i \in 1..Len(UpperCase) : UpperCase[i] = c

ToLowerChar(c) ==
    IF IsUpper(c)
    THEN LowerCase[CHOOSE i \in 1..Len(UpperCase) : UpperCase[i] = c]
    ELSE c

\* String.prototype.toLowerCase
ToLowerCase(s) == [i \in 1..Len(s) |-> ToLowerChar(s[i])]

\* String.prototype.localeCompare under the default collation: white space,
\* then punctuation, then digits, then letters; the letters of both cases
\* share a weight, and the case decides only between otherwise equal texts
\* (lower case first).
Collation ==
    <<" ", "-", ":", ".", "(", ")", "/",
      "0", "1", "2", "3", "4", "5", "6", "7", "8", "9">> \o LowerCase

Weight(c) == CHOOSE i \in 1..Len(Collation) : Collation[i] = ToLowerChar(c)

CaseWeight(c) == IF IsUpper(c) THEN 1 ELSE 0

\* the order of two sequences of numbers: -1, 0 or 1
RECURSIVE LexCompare(_, _)
LexCompare(a, b) ==
    IF a = <<>> /\ b = <<>> THEN 0
    ELSE IF a = <<>> THEN -1
    ELSE IF b = <<>> THEN 1
    ELSE IF Head(a) < Head(b) THEN -1
    ELSE IF Head(a) > Head(b) THEN 1
    ELSE LexCompare(Tail(a), Tail(b))

LocaleCompare(a, b) ==
    LET primary == LexCompare([i \in 1..Len(a) |-> Weight(a[i])],
                              [i \in 1..Len(b) |-> Weight(b[i])])
    IN  IF primary # 0 THEN primary
        ELSE LexCompare([i \in 1..Len(a) |-> CaseWeight(a[i])],
                        [i \in 1..Len(b) |-> CaseWeight(b[i])])

\* v || ""
OrEmpty(v) == IF Truthy(v) THEN v ELSE <<>>

\* the comparator of rows.sort: negative when a goes before b
CompareRows(a, b) ==
    LocaleCompare(OrEmpty(b.commit_author_date), OrEmpty(a.commit_author_date))

\* Array.prototype.sort is stable: x goes before the first element that the
\* comparator puts after it
RECURSIVE InsertRow(_, _)
InsertRow(sorted, x) ==
    IF sorted = <<>> THEN <<x>>
    ELSE IF CompareRows(x, Head(sorted)) < 0 THEN <<x>> \o sorted
    ELSE <<Head(sorted)>> \o InsertRow(Tail(sorted), x)

RECURSIVE SortRows(_)
SortRows(rs) ==
    IF rs = <<>> THEN <<>>
    ELSE InsertRow(SortRows(SubSeq(rs, 1, Len(rs) - 1)), rs[Len(rs)])

All == <<"a", "l", "l">>
UnknownRepo == <<"(","u","n","k","n","o","w","n"," ","r","e","p","o",")">>

\* the filtered memo
MatchesCaseSensitive(c, query, selected) ==
    IF selected # All /\ c.repo_full_name # selected THEN FALSE
    ELSE IF ~Truthy(query) THEN TRUE
    ELSE \/ Includes(c.sha, query)
         \/ Includes(c.repo_full_name, query)
         \/ Includes(OrEmpty(c.message), query)

Matches(c, query, selected) ==
    IF selected # All /\ c.repo_full_name # selected THEN FALSE
    ELSE IF ~Truthy(query) THEN TRUE
    ELSE \/ Includes(ToLowerCase(c.sha), query)
         \/ Includes(ToLowerCase(c.repo_full_name), query)
         \/ Includes(ToLowerCase(OrEmpty(c.message)), query)

filtered(cs, text, selected) ==
    SelectSeq(cs, LAMBDA c : Matches(c, ToLowerCase(Trim(text)), selected))

\* the grouped memo.  The Map is the sequence of its entries in insertion
\* order; an entry is [key, list].
GroupKey(c) == IF Truthy(c.repo_full_name) THEN c.repo_full_name ELSE UnknownRepo

MapAdd(m, c) ==
    IF \E i \in 1..Len(m) : m[i].key = GroupKey(c)
    THEN [i \in 1..Len(m) |->
            IF m[i].key = GroupKey(c)
            THEN [m[i] EXCEPT !.list = Append(@, c)]
            ELSE m[i]]
    ELSE Append(m, [key |-> GroupKey(c), list |-> <<c>>])

RECURSIVE MapOf(_, _)
MapOf(cs, m) == IF cs = <<>> THEN m ELSE MapOf(Tail(cs), MapAdd(m, Head(cs)))

RECURSIVE InsertEntry(_, _)
InsertEntry(sorted, x) ==
    IF sorted = <<>> THEN <<x>>
    ELSE IF LocaleCompare(x.key, Head(sorted).key) < 0 THEN <<x>> \o sorted
    ELSE <<Head(sorted)>> \o InsertEntry(Tail(sorted), x)

RECURSIVE SortEntries(_)
SortEntries(es) ==
    IF es = <<>> THEN <<>>
    ELSE InsertEntry(SortEntries(SubSeq(es, 1, Len(es) - 1)), es[Len(es)])

groupedUnsorted(cs) == MapOf(cs, <<>>)

grouped(cs) == SortEntries(MapOf(cs, <<>>))

\* the repos memo: the options of the select
RECURSIVE InsertName(_, _)
InsertName(sorted, x) ==
    IF sorted = <<>> THEN <<x>>
    ELSE IF LocaleCompare(x, Head(sorted)) < 0 THEN <<x>> \o sorted
    ELSE <<Head(sorted)>> \o InsertName(Tail(sorted), x)

RECURSIVE SortNames(_)
SortNames(ns) ==
    IF ns = <<>> THEN <<>>
    ELSE InsertName(SortNames(SubSeq(ns, 1, Len(ns) - 1)), ns[Len(ns)])

RECURSIVE SetAdd(_, _)
SetAdd(seen, cs) ==
    IF cs = <<>> THEN seen
    ELSE SetAdd(IF Truthy(Head(cs).repo_full_name)
                   /\ \A i \in 1..Len(seen) : seen[i] # Head(cs).repo_full_name
                THEN Append(seen, Head(cs).repo_full_name)
                ELSE seen,
                Tail(cs))

repos(cs) == <<All>> \o SortNames(SetAdd(<<>>, cs))

\* the rows read from out.jsonl, in file order, drawn from a bounded set;
\* the dates are timestamps of one format, as the commit fetcher writes them
RepoNames == { <<>>, <<"a", "/", "x">>, <<"B", "/", "y">> }
Dates == { Null, <<"2", "1">>, <<"2", "3">> }

SampleRow(r, d) ==
    [repo_full_name |-> r,
     sha |-> IF d = Null THEN <<"c", "1">> ELSE <<"F">> \o d,
     message |-> IF r = <<>> THEN <<>> ELSE <<"F", "i", "x", " ">> \o r,
     commit_author_date |-> d]

RowSet ==
    { SampleRow(r, d) : r \in RepoNames, d \in Dates }
    \ { SampleRow(<<"a", "/", "x">>, Null),
        SampleRow(<<"B", "/", "y">>, <<"2", "1">>),
        SampleRow(<<>>, <<"2", "3">>) }

Queries == { <<>>, <<" ", "F", "I", " ">>, <<"/", "x">>, <<"2", "3">> }

IdleView ==
    /\ vPc = "idle" /\ rows = <<>> /\ commits = <<>> /\ q = <<>> /\ repo = All

InitView ==
    /\ vPc = "loading"
    /\ rows \in UNION { [1..n -> RowSet] : n \in 0..MaxCommits }
    /\ commits = <<>>
    /\ q = <<>>
    /\ repo = All

\* Home(): loadCommitsFromRepoJsonl sorts the rows; CommitsClient is
\* rendered when there is at least one commit
Load ==
    /\ vPc = "loading"
    /\ commits' = SortRows(rows)
    /\ vPc' = IF rows = <<>> THEN "empty" ELSE "ready"
    /\ UNCHANGED <<rows, q, repo>>

\* typing in the search box
SetQ ==
    /\ vPc = "ready"
    /\ \E text \in Queries : q' = text
    /\ UNCHANGED <<vPc, rows, commits, repo>>

\* choosing an option of the select
SetRepo ==
    /\ vPc = "ready"
    /\ \E i \in 1..Len(repos(commits)) : repo' = repos(commits)[i]
    /\ UNCHANGED <<vPc, rows, commits, q>>

---------------------------------------------------------------------------
(* loadCommitsFromRepoJsonl: viewer/src/lib/commits.ts *)

\* A JSON value of a property: absent (the property is missing), null, a
\* string, a number, the empty array, a plain object, or an object whose own
\* toString is not a function (such as {"toString": null}), which String()
\* cannot convert.
JAbsent == [type |-> "absent", text |-> <<>>, n |-> 0]
JNull == [type |-> "null", text |-> <<>>, n |-> 0]
JString(t) == [type |-> "string", text |-> t, n |-> 0]
JNumber(k) == [type |-> "number", text |-> <<>>, n |-> k]
JEmptyArray == [type |-> "array", text |-> <<>>, n |-> 0]
JPlainObject == [type |-> "object", text |-> <<>>, n |-> 0]
JUnconvertible == [type |-> "unconvertible", text |-> <<>>, n |-> 0]

\* the TypeError String() throws: distinct from every text
Thrown == <<"TypeError">>

ObjectObject ==
    <<"[","o","b","j","e","c","t"," ","O","b","j","e","c","t","]">>

\* String(v)
StringOf(v) ==
    CASE v.type = "string" -> v.text
      [] v.type = "number" -> NumberToString(v.n)
      [] v.type = "array" -> <<>>
      [] v.type = "object" -> ObjectObject
      [] OTHER -> Thrown

_asStringOrNull(v) ==
    IF v.type \in {"absent", "null"} THEN Null ELSE StringOf(v)

_asString(v) ==
    IF v.type \in {"absent", "null"} THEN <<>> ELSE StringOf(v)

\* A line of the file is [text, kind, fields]: text is what trim() is applied
\* to (for a line of JSON, its first character); kind is what JSON.parse
\* makes of the trimmed text: "invalid" (it throws), "null", "number",
\* "string", "array" or "object"; fields are the properties of an object.
NoFields ==
    [sha |-> JAbsent, repo_full_name |-> JAbsent, message |-> JAbsent,
     commit_author_date |-> JAbsent]

\* what _parseCommitRow gives: a row, null, or an exception
NoRowResult == [result |-> "null", row |-> <<>>]
ThrowResult == [result |-> "throw", row |-> <<>>]

_parseCommitRow(line) ==
    IF line.kind \notin {"array", "object"} THEN NoRowResult
    ELSE LET o == IF line.kind = "object" THEN line.fields ELSE NoFields
             sha == _asString(o.sha)
             made == [repo_full_name |-> _asString(o.repo_full_name),
                      sha |-> sha,
                      message |-> _asString(o.message),
                      commit_author_date |-> _asStringOrNull(o.commit_author_date)]
         IN  IF sha = Thrown THEN ThrowResult
             ELSE IF ~Truthy(sha) THEN NoRowResult
             ELSE IF \/ made.repo_full_name = Thrown
                     \/ made.message = Thrown
                     \/ made.commit_author_date = Thrown
                  THEN ThrowResult
             ELSE [result |-> "row", row |-> made]

\* the body of the try block for one line: [threw, rows]
TryLine(rs, line) ==
    IF line.kind = "invalid" THEN [threw |-> TRUE, rows |-> rs]
    ELSE LET r == _parseCommitRow(line)
         IN  IF r.result = "throw" THEN [threw |-> TRUE, rows |-> rs]
             ELSE IF r.result = "row"
                  THEN [threw |-> FALSE, rows |-> Append(rs, r.row)]
             ELSE [threw |-> FALSE, rows |-> rs]

\* one iteration of the loop over the lines
LoopBodyNoCatch(acc, line) ==
    IF acc.threw THEN acc
    ELSE IF ~Truthy(Trim(line.text)) THEN acc
    ELSE TryLine(acc.rows, line)

LoopBody(acc, line) ==
    IF acc.threw THEN acc
    ELSE IF ~Truthy(Trim(line.text)) THEN acc
    ELSE LET t == TryLine(acc.rows, line)
         IN  IF t.threw THEN [threw |-> FALSE, rows |-> acc.rows] ELSE t

RECURSIVE LoopLines(_, _)
LoopLines(acc, ls) ==
    IF ls = <<>> THEN acc ELSE LoopLines(LoopBody(acc, Head(ls)), Tail(ls))

\* the lines of out.jsonl, drawn from a bounded set
ObjectLine(sha, name, msg, date) ==
    [text |-> <<"{">>, kind |-> "object",
     fields |-> [sha |-> sha, repo_full_name |-> name, message |-> msg,
                 commit_author_date |-> date]]

OtherLine(text, kind) == [text |-> text, kind |-> kind, fields |-> NoFields]

LineSet ==
    { OtherLine(<<>>, "invalid"),
      OtherLine(<<" ", "\t">>, "invalid"),
      OtherLine(<<"x">>, "invalid"),
      OtherLine(<<"7">>, "number"),
      OtherLine(<<"n">>, "null"),
      OtherLine(<<"[">>, "array"),
      ObjectLine(JAbsent, JString(<<"a", "/", "x">>), JString(<<"F">>),
                 JString(<<"2", "3">>)),
      ObjectLine(JString(<<>>), JAbsent, JAbsent, JAbsent),
      ObjectLine(JEmptyArray, JAbsent, JAbsent, JAbsent),
      ObjectLine(JUnconvertible, JAbsent, JAbsent, JAbsent),
      ObjectLine(JString(<<"a", "b">>), JString(<<"a", "/", "x">>),
                 JString(<<"F">>), JString(<<"2", "1">>)),
      ObjectLine(JNumber(7), JString(<<"B", "/", "y">>), JNull,
                 JString(<<"2", "3">>)),
      ObjectLine(JString(<<"c", "d">>), JAbsent, JPlainObject, JAbsent),
      ObjectLine(JString(<<"e", "f">>), JString(<<"a", "/", "x">>),
                 JUnconvertible, JNull) }

IdleLoad == lPc = "idle" /\ lines = <<>> /\ loaded = <<>>

InitLoad ==
    /\ lPc = "call"
    /\ lines \in UNION { [1..n -> LineSet] : n \in 0..MaxLines }
    /\ loaded = <<>>

\* readFile succeeds: split, loop over the lines, sort, return
LoadFile ==
    /\ lPc = "call"
    /\ LET acc == LoopLines([threw |-> FALSE, rows |-> <<>>], lines)
       IN  IF acc.threw
           THEN lPc' = "threw" /\ loaded' = <<>>
           ELSE lPc' = "returned" /\ loaded' = SortRows(acc.rows)
    /\ UNCHANGED lines

\* readFile rejects (no such file): the rejection goes to the caller
ReadFileFails ==
    /\ lPc = "call"
    /\ lPc' = "noFile"
    /\ UNCHANGED <<lines, loaded>>

---------------------------------------------------------------------------
(* Specifications *)

\* parseExams on its own
SpecParseInit == InitParse /\ IdleFetch /\ IdlePipe /\ IdleView /\ IdleLoad
SpecParseNext == ParseCall /\ UNCHANGED <<fetchVars, pipeVars, viewVars, loadVars>>
SpecParse == SpecParseInit /\ [][SpecParseNext]_vars

\* fetchPage on its own
SpecFetchInit == IdleParse /\ InitFetch /\ IdlePipe /\ IdleView /\ IdleLoad
SpecFetchNext ==
    \/ FetchCall /\ UNCHANGED <<parseVars, pipeVars, viewVars, loadVars>>
    \/ FetchReturn /\ UNCHANGED <<parseVars, pipeVars, viewVars, loadVars>>
    \/ FetchThrow /\ UNCHANGED <<parseVars, pipeVars, viewVars, loadVars>>
SpecFetch == SpecFetchInit /\ [][SpecFetchNext]_vars

\* a run of the scraper
Init == IdleParse /\ IdleFetch /\ InitPipe /\ IdleView /\ IdleLoad
Next ==
    \/ Start /\ UNCHANGED <<parseVars, fetchVars, viewVars, loadVars>>
    \/ FetchResolve /\ UNCHANGED <<parseVars, fetchVars, viewVars, loadVars>>
    \/ (\E kind \in FailureKinds : FetchReject(kind))
          /\ UNCHANGED <<parseVars, fetchVars, viewVars, loadVars>>
    \/ NextPage /\ UNCHANGED <<parseVars, fetchVars, viewVars, loadVars>>
    \/ NextCategory /\ UNCHANGED <<parseVars, fetchVars, viewVars, loadVars>>
    \/ Export /\ UNCHANGED <<parseVars, fetchVars, viewVars, loadVars>>
    \/ ProcessExit /\ UNCHANGED <<parseVars, fetchVars, viewVars, loadVars>>
Spec == Init /\ [][Next]_vars

\* the viewer
SpecViewerInit == IdleParse /\ IdleFetch /\ IdlePipe /\ InitView /\ IdleLoad
SpecViewerNext ==
    \/ Load /\ UNCHANGED <<parseVars, fetchVars, pipeVars, loadVars>>
    \/ SetQ /\ UNCHANGED <<parseVars, fetchVars, pipeVars, loadVars>>
    \/ SetRepo /\ UNCHANGED <<parseVars, fetchVars, pipeVars, loadVars>>
SpecViewer == SpecViewerInit /\ [][SpecViewerNext]_vars

\* loadCommitsFromRepoJsonl on its own
SpecLoadInit == IdleParse /\ IdleFetch /\ IdlePipe /\ IdleView /\ InitLoad
SpecLoadNext ==
    \/ LoadFile /\ UNCHANGED <<parseVars, fetchVars, pipeVars, viewVars>>
    \/ ReadFileFails /\ UNCHANGED <<parseVars, fetchVars, pipeVars, viewVars>>
SpecLoad == SpecLoadInit /\ [][SpecLoadNext]_vars

---------------------------------------------------------------------------
(* Properties of parseExams (SpecParse) *)

\* what the properties say of an element, stated on the element itself
HasTitle(e) ==
    \E k \in 1..Len(e.titles) :
        \E j \in 1..Len(e.titles[k]) : ~IsWhiteSpace(e.titles[k][j])

HasLink(e) ==
    /\ Len(e.anchors) >= 1
    /\ e.anchors[1] # Undefined
    /\ Len(e.anchors[1]) >= 1

CompleteBlocks(html) ==
    { i \in 1..Len(html) : html[i].listing /\ HasTitle(html[i]) /\ HasLink(html[i]) }

\* the position in the output of the record of complete block i
Rank(html, i) == Cardinality({ j \in CompleteBlocks(html) : j <= i })

\* the text of the titles from its first to its last non-blank character
TextBetweenBlanks(e) ==
    LET text == Flatten(e.titles)
        inked == { j \in 1..Len(text) : ~IsWhiteSpace(text[j]) }
        first == CHOOSE j \in inked : \A k \in inked : j <= k
        last == CHOOSE j \in inked : \A k \in inked : j >= k
    IN  SubSeq(text, first, last)

\* C1: parseExams returns exactly one record per listing block that has a
\* non-blank title and a present, non-empty link, in block order, each
\* carrying the block's trimmed title and the given category; blocks missing
\* either field yield no record, so M complete blocks give M records.
C1_OneRecordPerCompleteBlock ==
    pPc = "returned" =>
        /\ Len(pExams) = Cardinality(CompleteBlocks(pHtml))
        /\ \A i \in CompleteBlocks(pHtml) :
              /\ pExams[Rank(pHtml, i)].title = TextBetweenBlanks(pHtml[i])
              /\ pExams[Rank(pHtml, i)].category = pCategory

\* a page of two listing blocks of which exactly one is complete, parsed
C1_Witness ==
    /\ pPc = "returned"
    /\ Len(pHtml) = 2
    /\ pHtml[1].listing /\ pHtml[2].listing
    /\ Cardinality(CompleteBlocks(pHtml)) = 1
    /\ ~HasTitle(pHtml[2])
    /\ Len(pExams) = 1

\* C7: the url of every record is the fixed base followed by the raw href of
\* its block, character for character, whatever the category: the base is
\* the same 34 characters and the rest is the href, slashes included.
C7_UrlIsBasePlusRawLink ==
    pPc = "returned" =>
        \A i \in CompleteBlocks(pHtml) :
            LET url == pExams[Rank(pHtml, i)].url
                href == pHtml[i].anchors[1]
            IN  /\ Len(url) = Len(BaseUrl) + Len(href)
                /\ SubSeq(url, 1, Len(BaseUrl)) = BaseUrl
                /\ SubSeq(url, Len(BaseUrl) + 1, Len(url)) = href

\* a record made from href="/a": the slash after the base's own slash is kept
C7_Witness ==
    /\ pPc = "returned"
    /\ pCategory = "Math"
    /\ \E k \in 1..Len(pExams) :
          /\ pExams[k].url = BaseUrl \o <<"/", "a">>
          /\ pExams[k].url[Len(BaseUrl)] = "/"
          /\ pExams[k].url[Len(BaseUrl) + 1] = "/"

---------------------------------------------------------------------------
(* Properties of fetchPage (SpecFetch) *)

IsDigit(c) == \E d \in 0..9 : Digit(d) = c
DigitValue(c) == CHOOSE d \in 0..9 : Digit(d) = c

\* the number a sequence of digits writes
RECURSIVE ParseDecimal(_)
ParseDecimal(ds) ==
    IF ds = <<>> THEN 0
    ELSE 10 * ParseDecimal(SubSeq(ds, 1, Len(ds) - 1)) + DigitValue(ds[Len(ds)])

PagedEq == <<"p", "a", "g", "e", "d", "=">>
TagEq == <<"t", "a", "g", "=">>

\* the text after the first occurrence of t in s
After(s, t) ==
    LET at == CHOOSE i \in 0..(Len(s) - Len(t)) :
                  /\ SubSeq(s, i + 1, i + Len(t)) = t
                  /\ \A j \in 0..(i - 1) : SubSeq(s, j + 1, j + Len(t)) # t
    IN  SubSeq(s, at + Len(t) + 1, Len(s))

\* C2: the url fetchPage requests has no paged parameter exactly when the
\* page index is 0; otherwise paged= is followed by the decimal digits of the
\* index and nothing else; the tag parameter is there in both cases.
C2_PagedOmittedExactlyAtZero ==
    fPc \in {"awaiting", "returned", "threw"} =>
        /\ Includes(fUrl, TagEq)
        /\ Includes(fUrl, PagedEq) <=> (fPage # 0)
        /\ fPage # 0 =>
              LET digits == After(fUrl, PagedEq)
              IN  /\ digits # <<>>
                  /\ \A i \in 1..Len(digits) : IsDigit(digits[i])
                  /\ digits[1] # "0"
                  /\ ParseDecimal(digits) = fPage

\* page 12 of Mathematics was requested: ...?tag=mathematics&paged=12
C2_Witness ==
    /\ fPc = "returned"
    /\ fPage = 12
    /\ fCategory = "Mathematics"
    /\ After(fUrl, TagEq) = TagMathematics \o <<"&">> \o PagedEq \o <<"1", "2">>

---------------------------------------------------------------------------
(* Properties of processPages (Spec) *)

\* the fetches of a complete run: ECE 0..80, Mathematics 0..20, Math 0..5
ExpectedFetches ==
    [i \in 1..108 |->
        IF i <= 81 THEN <<"ECE", i - 1>>
        ELSE IF i <= 102 THEN <<"Mathematics", i - 82>>
        ELSE <<"Math", i - 103>>]

FetchedPages == [i \in 1..Len(fetchLog) |-> <<fetchLog[i].category, fetchLog[i].page>>]

FailedFetches == { i \in 1..Len(fetchLog) : fetchLog[i].outcome \in FailureKinds }

\* C3: a run in which every fetch succeeds issues exactly the 108 fetches
\* ECE 0..80, Mathematics 0..20, Math 0..5, in that order, and every fetch is
\* followed by one delay of the fixed length before the next fetch or the
\* export: while a fetch is awaited every earlier fetch has had its delay,
\* while a delay runs it is the only one and belongs to the last fetch, and
\* at the end there have been 108 delays.
C3_FetchCountAndDelays ==
    /\ \A i \in 1..Len(delays) : delays[i] = DelayMs
    /\ \A i \in 1..Len(timers) : timers[i] = DelayMs
    /\ pc = "awaitFetch" => Len(delays) = Len(fetchLog) - 1 /\ timers = <<>>
    /\ pc = "awaitDelay" => Len(delays) = Len(fetchLog) - 1 /\ Len(timers) = 1
    /\ pc = "fulfilled" =>
          /\ Len(fetchLog) = 108
          /\ FetchedPages = ExpectedFetches
          /\ Len(delays) = 108
          /\ timers = <<>>

\* a complete run has ended
C3_Witness ==
    /\ pc = "fulfilled"
    /\ exitCode # <<>>
    /\ Len(fetchLog) = 108
    /\ Len(delays) = 108

\* C4: once a page fetch has failed, no file is written and the exporter is
\* never run, whatever was accumulated; the failed fetch stays the last one
\* (no retry, no later page) and nothing is left pending.
C4_FailureWritesNothing ==
    FailedFetches # {} =>
        /\ file = NoFile
        /\ writes = 0
        /\ FailedFetches = {Len(fetchLog)}
        /\ inFlight = <<>>
        /\ timers = <<>>
        /\ pc = "rejected"

\* the fetch of a later page failed after records had been accumulated, and
\* the process has ended
C4_Witness ==
    /\ FailedFetches # {}
    /\ Len(fetchLog) > 1
    /\ allExams # <<>>
    /\ exitCode # <<>>

\* the records of a sheet: its rows after the header row, as records
SheetRecords(sheet) ==
    [i \in 1..(Len(sheet) - 1) |->
        [title |-> sheet[i + 1][1].v,
         url |-> sheet[i + 1][2].v,
         category |-> sheet[i + 1][3].v]]

\* C5: the export happens at most once, and only when all 108 pages have been
\* fetched, parsed and paused for; what is written is the parser's results
\* of the pages joined in fetch order, each result being that of the page
\* fetched, with nothing dropped, reordered or deduplicated.
C5_ExportOnceAllInOrder ==
    /\ writes <= 1
    /\ \A i \in 1..Len(parsedLog) :
          parsedLog[i] = parseExams(ServerPage(site, Tag(fetchLog[i].category),
                                               fetchLog[i].page),
                                    fetchLog[i].category)
    /\ file # NoFile =>
          /\ writes = 1
          /\ pc = "fulfilled"
          /\ Len(parsedLog) = 108
          /\ Len(delays) = 108
          /\ FetchedPages = ExpectedFetches
          /\ Len(file[1].Sheets) = 1
          /\ Flatten(parsedLog) # <<>> =>
                SheetRecords(file[1].Sheets[1]) = Flatten(parsedLog)

\* a complete run wrote a sheet in which one record occurs twice
C5_Witness ==
    /\ file # NoFile
    /\ exitCode # <<>>
    /\ LET recs == SheetRecords(file[1].Sheets[1])
       IN  /\ Len(recs) > 1
           /\ recs[1].category = "ECE"
           /\ recs[Len(recs)].category = "Math"
           /\ \E i \in 2..Len(recs) : recs[i] = recs[1]

\* C6: at most one fetch is in flight; while one is, no delay is running and
\* every earlier fetch has completed, has had its records appended and has
\* had its delay; this holds at the first page of a category as well.
C6_OneFetchInFlight ==
    /\ Len(inFlight) <= 1
    /\ Cardinality({ i \in 1..Len(fetchLog) : fetchLog[i].outcome = "pending" })
          = Len(inFlight)
    /\ inFlight # <<>> =>
          /\ pc = "awaitFetch"
          /\ timers = <<>>
          /\ fetchLog[Len(fetchLog)].outcome = "pending"
          /\ Len(parsedLog) = Len(fetchLog) - 1
          /\ Len(delays) = Len(fetchLog) - 1
          /\ allExams = Flatten(parsedLog)

\* the first page of Mathematics is in flight, after the 81 pages of ECE
C6_Witness ==
    /\ Len(inFlight) = 1
    /\ category = "Mathematics"
    /\ page = 0
    /\ Len(delays) = 81
    /\ Len(parsedLog) = 81

HeaderRow ==
    << [t |-> "s", v |-> "title"], [t |-> "s", v |-> "url"],
       [t |-> "s", v |-> "category"] >>

\* C8: when every page parsed to no record, the file written holds one sheet
\* and that sheet holds the header row title, url, category and nothing else.
C8_EmptyExportHasHeaderRow ==
    (file # NoFile /\ allExams = <<>>) =>
        /\ Len(file[1].Sheets) = 1
        /\ Len(file[1].Sheets[1]) = 1
        /\ file[1].Sheets[1][1] = HeaderRow

ErrorLogged == \E i \in 1..Len(consoleLog) : consoleLog[i][1] = "error"

\* C9: when a page fetch has failed and the process has ended, the error was
\* logged and the exit code is not 0, for either kind of failure.
C9_FailureEndsNonZero ==
    (FailedFetches # {} /\ exitCode # <<>>) =>
        /\ ErrorLogged
        /\ exitCode # <<0>>

---------------------------------------------------------------------------
(* Properties of the viewer (SpecViewer) *)

\* the time a timestamp of the fixed format denotes; a missing date counts
\* as before every date
DateValue(d) == IF Truthy(d) THEN ParseDecimal(d) ELSE -1

RepoNameShown(c) == IF c.repo_full_name = <<>> THEN UnknownRepo ELSE c.repo_full_name

\* C10: whatever the search text and the repository selection, the groups
\* rendered are keyed by repository name and strictly ascending by it, each
\* displayed commit is in exactly the group of its repository ("(unknown
\* repo)" when it has none), no group is empty, and inside a group the
\* commits are in descending order of commit date.
C10_GroupsSortedAndPartition ==
    vPc = "ready" =>
        LET shown == filtered(commits, q, repo)
            groups == grouped(shown)
        IN  /\ \A i, j \in 1..Len(groups) :
                  i < j => LocaleCompare(groups[i].key, groups[j].key) < 0
            /\ \A i \in 1..Len(shown) :
                  \E g \in 1..Len(groups) : groups[g].key = RepoNameShown(shown[i])
            /\ \A g \in 1..Len(groups) :
                  /\ groups[g].list # <<>>
                  /\ groups[g].list =
                        SelectSeq(shown, LAMBDA c : RepoNameShown(c) = groups[g].key)
                  /\ \A a, b \in 1..Len(groups[g].list) :
                        a < b => DateValue(groups[g].list[a].commit_author_date)
                                   >= DateValue(groups[g].list[b].commit_author_date)

\* a search is active and shows two groups; the first holds two commits that
\* the file listed oldest first
C10_Witness ==
    /\ vPc = "ready"
    /\ q = <<" ", "F", "I", " ">>
    /\ Len(rows) = 3
    /\ rows[1].commit_author_date = <<"2", "1">>
    /\ rows[2].commit_author_date = <<"2", "3">>
    /\ LET groups == grouped(filtered(commits, q, repo))
       IN  /\ Len(groups) = 2
           /\ groups[1].key = <<"a", "/", "x">>
           /\ Len(groups[1].list) = 2
           /\ groups[1].list[1].commit_author_date = <<"2", "3">>
           /\ groups[1].list[2].commit_author_date = <<"2", "1">>
           /\ groups[2].key = <<"B", "/", "y">>

\* t occurs in s: s is some text, then t, then some text
OccursIn(t, s) ==
    \E before \in 0..Len(s) :
        /\ before + Len(t) <= Len(s)
        /\ \A k \in 1..Len(t) : s[before + k] = t[k]

\* the search text without the blanks around it, in lower case
Needle(text) ==
    IF \A j \in 1..Len(text) : IsWhiteSpace(text[j]) THEN <<>>
    ELSE LET inked == { j \in 1..Len(text) : ~IsWhiteSpace(text[j]) }
             first == CHOOSE j \in inked : \A k \in inked : j <= k
             last == CHOOSE j \in inked : \A k \in inked : j >= k
         IN  [j \in 1..(last - first + 1) |-> ToLowerChar(text[first + j - 1])]

\* the commit passes both filters
PassesFilters(c) ==
    /\ repo = All \/ c.repo_full_name = repo
    /\ \/ Needle(q) = <<>>
       \/ OccursIn(Needle(q), ToLowerCase(c.sha))
       \/ OccursIn(Needle(q), ToLowerCase(c.repo_full_name))
       \/ OccursIn(Needle(q), ToLowerCase(c.message))

\* C11: after any changes of the search text and the repository selection,
\* the commits shown are exactly the loaded commits that pass both filters
\* (selection "all" or equal to the repository name; trimmed lower-cased
\* query empty or occurring in the lower-cased sha, repository name or
\* message); with both filters cleared all loaded commits are shown; and no
\* change of a filter changes the loaded commits.
C11_ShownIsLoadedPassingBothFilters ==
    /\ [](vPc = "ready" =>
            /\ filtered(commits, q, repo) = SelectSeq(commits, PassesFilters)
            /\ (q = <<>> /\ repo = All) => filtered(commits, q, repo) = commits)
    /\ [][vPc = "ready" => commits' = commits]_vars

\* a padded upper-case search and a repository are selected, and some but
\* not all of the loaded commits are shown
C11_Witness ==
    /\ vPc = "ready"
    /\ q = <<" ", "F", "I", " ">>
    /\ repo = <<"a", "/", "x">>
    /\ Len(commits) = 3
    /\ Len(filtered(commits, q, repo)) = 1

\* the value of the tag parameter of a url: what follows tag= up to the next
\* & or the end
TagValue(url) ==
    LET rest == After(url, TagEq)
        stops == { i \in 1..Len(rest) : rest[i] = "&" }
    IN  IF stops = {} THEN rest
        ELSE SubSeq(rest, 1, (CHOOSE i \in stops : \A j \in stops : i <= j) - 1)

\* C12: the tag and the url fetchPage requests for one of the categories
\* ECE, Mathematics, Math differ from those it requests for each of the two
\* other categories at the same page index.
C12_CategoriesHaveDistinctTags ==
    (fPc \in {"awaiting", "returned", "threw"} /\ fCategory \in Categories) =>
        \A other \in Categories \ {fCategory} :
            /\ TagValue(fUrl) # TagValue(RequestUrl(fPage, other))
            /\ fUrl # RequestUrl(fPage, other)

\* page 0 of Math was requested with tag=math, a prefix of Mathematics' tag
C12_Witness ==
    /\ fPc = "returned"
    /\ fCategory = "Math"
    /\ fPage = 0
    /\ TagValue(fUrl) = TagMath
    /\ TagValue(RequestUrl(0, "Mathematics")) = TagMathematics

---------------------------------------------------------------------------
(* Properties of loadCommitsFromRepoJsonl (SpecLoad) *)

IsBlankLine(line) == \A j \in 1..Len(line.text) : IsWhiteSpace(line.text[j])

\* the sha is there and is not empty ("" or [])
HasSha(line) ==
    /\ line.fields.sha.type \notin {"absent", "null", "array"}
    /\ line.fields.sha.type = "string" => line.fields.sha.text # <<>>

\* the lines the claim as written expects a row for
HasShaLines ==
    { i \in 1..Len(lines) :
        /\ ~IsBlankLine(lines[i])
        /\ lines[i].kind = "object"
        /\ HasSha(lines[i]) }

\* some property of the line's object cannot be converted to a string
HasUnconvertible(line) ==
    \E f \in DOMAIN line.fields : line.fields[f].type = "unconvertible"

\* the lines that yield a row
KeptLines == { i \in HasShaLines : ~HasUnconvertible(lines[i]) }

Occurrences(seq, x) == Cardinality({ i \in 1..Len(seq) : seq[i] = x })

DescendingByDate(rs) ==
    \A a, b \in 1..Len(rs) :
        a < b => DateValue(rs[a].commit_author_date)
                   >= DateValue(rs[b].commit_author_date)

\* C13 as written: the load never fails on a line, and the result has one
\* row for every line that is not blank, is a JSON object and has a sha that
\* is not missing or empty; every row has a non-empty sha; the rows are in
\* descending order of commit_author_date, those without a date last.
C13_OneRowPerLineWithSha ==
    lPc \in {"returned", "threw"} =>
        /\ lPc = "returned"
        /\ Len(loaded) = Cardinality(HasShaLines)
        /\ \A k \in 1..Len(loaded) : loaded[k].sha # <<>>
        /\ DescendingByDate(loaded)

\* C13 as amended: as above, but a line is also skipped when one of its
\* properties cannot be converted to a string; the rows are those of the
\* remaining lines, each once.
C13_OneRowPerConvertibleLineWithSha ==
    lPc \in {"returned", "threw"} =>
        /\ lPc = "returned"
        /\ Len(loaded) = Cardinality(KeptLines)
        /\ \A i \in KeptLines :
              LET row == _parseCommitRow(lines[i]).row
              IN  Occurrences(loaded, row)
                    = Cardinality({ j \in KeptLines :
                                      _parseCommitRow(lines[j]).row = row })
        /\ \A k \in 1..Len(loaded) :
              /\ loaded[k].sha # <<>>
              /\ loaded[k].sha # Thrown
        /\ DescendingByDate(loaded)

\* three lines: a row without a date, listed first; a dated row; a line
\* whose message cannot be converted.  Two rows come back, the dated first.
C13_Witness ==
    /\ lPc = "returned"
    /\ Len(lines) = 3
    /\ lines[1].fields.sha = JString(<<"c", "d">>)
    /\ lines[2].fields.sha = JString(<<"a", "b">>)
    /\ HasUnconvertible(lines[3]) /\ HasSha(lines[3])
    /\ Len(loaded) = 2
    /\ loaded[1].sha = <<"a", "b">>
    /\ loaded[2].sha = <<"c", "d">>
    /\ loaded[2].commit_author_date = Null
=============================================================================
